---- MODULE Spec2Model ----
(***************************************************************************)
(* Keyboard commanding support of the tracing framework                    *)
(* (src/src/wtf/events/keyboard.js): wtf.events.Keyboard, which keeps one  *)
(* host key-handler registration per shortcut that has listeners,          *)
(* wtf.events.KeyboardScope, which records the shortcuts added through it  *)
(* and removes them on disposal, and the per-window cache                  *)
(* wtf.events.Keyboard.getWindowKeyboard.                                  *)
(*                                                                         *)
(* A shortcut string is a sequence of one-character strings, so that       *)
(* String.split('|') is computed and not assumed.  wtf.events.EventEmitter *)
(* (addListener, removeListener, hasListeners, emitEvent) is not part of   *)
(* the sources at hand and is modelled from the specification; the host    *)
(* key handler goog.ui.KeyboardShortcutHandler is modelled by its          *)
(* contract (register, unregister, trigger with the identifier).           *)
(***************************************************************************)
EXTENDS Integers, Sequences, FiniteSets, TLC

VARIABLES
  listeners,   \* EventEmitter state of the Keyboard: descriptor -> sequence of listeners
  host,        \* keyHandler_: the registrations [identifier, keys] it holds
  calls,       \* the keyHandler_ calls issued by the last operation, in order
  err,         \* "none", or the error the last operation propagated to its caller
  last,        \* the last operation and what it did
  recorded,    \* KeyboardScope.listeners_ of each scope: [shortcut, callback, scope] tuples
  disposed,    \* goog.Disposable state of each scope
  added,       \* per scope, the listeners its addShortcut calls put on the Keyboard
  late,        \* per scope, whether addShortcut was called on it after its disposal
  unmatched,   \* the direct addShortcut calls not yet matched by a removeShortcut
  fire,        \* the fan-out in progress or just ended: phase, event, listeners invoked
  uids,        \* goog.getUid: window -> uid, 0 while none is assigned
  keyboardInstances_,  \* wtf.events.Keyboard.keyboardInstances_: uid -> Keyboard, 0 for none
  keyboards,   \* the Keyboards constructed so far, by identity: [window, disposed]
  ret,         \* the last getWindowKeyboard call: its argument, result and cache hit
  live         \* the Keyboard is not disposed: keyHandler_ and eh_ are listening

kbVars == <<listeners, host, calls, err>>

scopeVars == <<recorded, disposed, added, late>>

dirVars == <<uids, keyboardInstances_, keyboards, ret>>

vars == <<listeners, host, calls, err, last, recorded, disposed, added, late, unmatched,
          fire, uids, keyboardInstances_, keyboards, ret, live>>

\* ------------------------------------------------------------ bounds

\* Cap on the number of listener entries held by the Keyboard.
MaxListeners == 3

\* Cap on the number of addShortcut calls made on one scope.
MaxRecorded == 1

\* Cap on the number of direct addShortcut calls awaiting their removeShortcut.
MaxUnmatched == 1

\* ------------------------------------------------------------ values

Sep == "|"

Keys == {"g", "h"}

Callbacks == {"cb1", "cb2"}

\* opt_scope: an object, or undefined when the argument is omitted.
ScopeObjs == {"undefined", "o1"}

\* A descriptor names at most one key here; the empty descriptor is what
\* split yields around a leading, trailing or doubled separator.
Descs == {<<>>} \cup {<<c>> : c \in Keys}

\* ------------------------------------------------------------ String.split

RECURSIVE SplitAcc(_, _, _)
SplitAcc(s, cur, out) ==
  IF s = <<>> THEN Append(out, cur)
  ELSE IF Head(s) = Sep THEN SplitAcc(Tail(s), <<>>, Append(out, cur))
  ELSE SplitAcc(Tail(s), Append(cur, Head(s)), out)

\* shortcut.split('|'): never empty; '' splits to [''].
split(shortcut) == SplitAcc(shortcut, <<>>, <<>>)

\* The shortcut strings the operations are called with: single descriptors,
\* two aliases, a repeated alias, and strings with an empty descriptor
\* before or after the separator.
Shortcuts ==
  { <<"g">>, <<"h">>, <<"g", Sep, "h">>, <<"g", Sep, "g">>, <<Sep, "h">>, <<"g", Sep>> }

\* ------------------------------------------------------------ EventEmitter

Listener(callback, scope) == [callback |-> callback, scope |-> scope]

hasListeners(ls, eventType) == ls[eventType] # <<>>

addListener(ls, eventType, callback, scope) ==
  [ls EXCEPT ![eventType] = Append(@, Listener(callback, scope))]

\* Index of the first listener of the list equal to l, 0 when there is none.
IndexOf(list, l) ==
  IF \E i \in 1..Len(list) : list[i] = l
  THEN CHOOSE i \in 1..Len(list) : list[i] = l /\ \A j \in 1..(i - 1) : list[j] # l
  ELSE 0

RemoveAt(list, i) == SubSeq(list, 1, i - 1) \o SubSeq(list, i + 1, Len(list))

\* Removes one entry matching callback and scope by identity; a no-op when
\* there is none.
removeListener(ls, eventType, callback, scope) ==
  LET i == IndexOf(ls[eventType], Listener(callback, scope))
  IN IF i = 0 THEN ls ELSE [ls EXCEPT ![eventType] = RemoveAt(@, i)]

\* ------------------------------------------------------------ host key handler

\* The host rejects a descriptor that names no key (descriptor-format error).
HostRejects(shortcut) == shortcut = <<>>

registerShortcut(h, identifier, shortcut) ==
  h \cup {[identifier |-> identifier, keys |-> shortcut]}

unregisterShortcut(h, shortcut) == {r \in h : r.keys # shortcut}

Registered(h, shortcut) == \E r \in h : r.keys = shortcut

\* ------------------------------------------------------------ Keyboard

\* The part of the Keyboard an operation reads and writes, with the
\* keyHandler_ calls it issued, the error it raised and, for a disposal, the
\* removeShortcut calls made on the Keyboard, each as the recorded tuple.
KState(ls, h) ==
  [listeners |-> ls, host |-> h, calls |-> <<>>, err |-> "none", removes |-> <<>>]

\* addStep without the registration of a descriptor that has no listeners yet.
addStepNoRegister(k, shortcut, callback, scope) ==
  [k EXCEPT !.listeners = addListener(@, shortcut, callback, scope)]

\* addStep that registers the descriptor with the host on every call.
addStepAlwaysRegisters(k, shortcut, callback, scope) ==
  IF HostRejects(shortcut)
  THEN [k EXCEPT !.calls = Append(@, <<"registerShortcut", shortcut>>),
                 !.err = "format"]
  ELSE [k EXCEPT !.calls = Append(@, <<"registerShortcut", shortcut>>),
                 !.host = registerShortcut(@, shortcut, shortcut),
                 !.listeners = addListener(@, shortcut, callback, scope)]

\* addStep that leaves out a triple the descriptor already has.
addStepOncePerTriple(k, shortcut, callback, scope) ==
  IF \E i \in 1..Len(k.listeners[shortcut]) :
       k.listeners[shortcut][i] = Listener(callback, scope)
  THEN k
  ELSE IF HostRejects(shortcut)
  THEN [k EXCEPT !.calls = Append(@, <<"registerShortcut", shortcut>>),
                 !.err = "format"]
  ELSE [k EXCEPT !.calls = Append(@, <<"registerShortcut", shortcut>>),
                 !.host = registerShortcut(@, shortcut, shortcut),
                 !.listeners = addListener(@, shortcut, callback, scope)]

\* One iteration of addShortcut's loop (keyboard.js 75-79).
addStep(k, shortcut, callback, scope) ==
  IF hasListeners(k.listeners, shortcut)
  THEN [k EXCEPT !.listeners = addListener(@, shortcut, callback, scope)]
  ELSE IF HostRejects(shortcut)
  THEN [k EXCEPT !.calls = Append(@, <<"registerShortcut", shortcut>>),
                 !.err = "format"]
  ELSE [k EXCEPT !.calls = Append(@, <<"registerShortcut", shortcut>>),
                 !.host = registerShortcut(@, shortcut, shortcut),
                 !.listeners = addListener(@, shortcut, callback, scope)]

\* The loop of addShortcut from index n; an exception ends it.
RECURSIVE addLoop(_, _, _, _, _)
addLoop(k, shortcuts, n, callback, scope) ==
  IF n > Len(shortcuts) \/ k.err # "none" THEN k
  ELSE addLoop(addStep(k, shortcuts[n], callback, scope), shortcuts, n + 1,
               callback, scope)

\* addShortcut without the loop: only the first descriptor is handled.
addShortcutFirstOnly(k, shortcut, callback, scope) ==
  addLoop(k, <<split(shortcut)[1]>>, 1, callback, scope)

addShortcut(k, shortcut, callback, scope) ==
  addLoop(k, split(shortcut), 1, callback, scope)

\* removeStep that unregisters without asking hasListeners.
removeStepAlwaysUnregisters(k, shortcut, callback, scope) ==
  [k EXCEPT !.listeners = removeListener(@, shortcut, callback, scope),
            !.calls = Append(@, <<"unregisterShortcut", shortcut>>),
            !.host = unregisterShortcut(@, shortcut)]

\* One iteration of removeShortcut's loop (keyboard.js 95-99).
removeStep(k, shortcut, callback, scope) ==
  LET ls == removeListener(k.listeners, shortcut, callback, scope)
  IN IF ~hasListeners(ls, shortcut)
     THEN [k EXCEPT !.listeners = ls,
                    !.calls = Append(@, <<"unregisterShortcut", shortcut>>),
                    !.host = unregisterShortcut(@, shortcut)]
     ELSE [k EXCEPT !.listeners = ls]

RECURSIVE removeLoop(_, _, _, _, _)
removeLoop(k, shortcuts, n, callback, scope) ==
  IF n > Len(shortcuts) \/ k.err # "none" THEN k
  ELSE removeLoop(removeStep(k, shortcuts[n], callback, scope), shortcuts, n + 1,
                  callback, scope)

removeShortcut(k, shortcut, callback, scope) ==
  removeLoop(k, split(shortcut), 1, callback, scope)

\* ------------------------------------------------------------ KeyboardScope

Scopes == {"s1", "s2"}

\* The loop of disposeInternal (keyboard.js 171-174) from index n.
RECURSIVE disposeLoop(_, _, _)
disposeLoop(k, list, n) ==
  IF n > Len(list) \/ k.err # "none" THEN k
  ELSE disposeLoop([removeShortcut(k, list[n][1], list[n][2], list[n][3])
                      EXCEPT !.removes = Append(@, list[n])],
                   list, n + 1)

\* disposeInternal whose loop starts at the second tuple.
disposeInternalFromSecond(k, list) == disposeLoop(k, list, 2)

\* disposeInternal whose loop runs one index past the end of the list, where
\* listener[0] is read of undefined.
disposeInternalPastEnd(k, list) == [disposeLoop(k, list, 1) EXCEPT !.err = "type"]

disposeInternal(k, list) == disposeLoop(k, list, 1)

\* ------------------------------------------------------------ fan-out

\* No fan-out is in progress or has just ended.
Idle ==
  [phase |-> "idle", identifier |-> <<>>, bound |-> <<>>, n |-> 0, invoked |-> <<>>,
   threw |-> {}, mutated |-> FALSE]

\* keyPressed_ that emits one and the same event for every shortcut.
keyPressedAsFirstKey_(e) == <<"g">>

\* keyPressed_(e) (keyboard.js 109-111): the event emitted for the host's
\* SHORTCUT_TRIGGERED event e.
keyPressed_(e) == e.identifier

\* emitEvent that walks the listeners bound to the event newest first.
emitEventNewestFirst(ls, eventType) ==
  [phase |-> IF ls[eventType] = <<>> THEN "done" ELSE "running",
   identifier |-> eventType,
   bound |-> [i \in 1..Len(ls[eventType]) |-> ls[eventType][Len(ls[eventType]) + 1 - i]],
   n |-> 1, invoked |-> <<>>, threw |-> {}, mutated |-> FALSE]

\* emitEvent(eventType) begins: the listeners bound to the event are
\* snapshotted, and the fan-out is over at once when there are none.
emitEvent(ls, eventType) ==
  [phase |-> IF ls[eventType] = <<>> THEN "done" ELSE "running",
   identifier |-> eventType, bound |-> ls[eventType], n |-> 1, invoked |-> <<>>,
   threw |-> {}, mutated |-> FALSE]

\* A fan-out that walks the live listener list instead of its snapshot.
emitQueueLive(f, ls) == ls[f.identifier]

\* The list the fan-out f walks.
emitQueue(f, ls) == f.bound

\* A fan-out that a throwing listener ends.
afterListenerAborting(f, ls, l, threw, ls2) ==
  [f EXCEPT !.n = @ + 1,
            !.invoked = Append(@, l),
            !.threw = IF threw THEN @ \cup {f.n} ELSE @,
            !.mutated = @ \/ ls2[f.identifier] # ls[f.identifier],
            !.phase = IF threw \/ f.n + 1 > Len(emitQueue(f, ls2)) THEN "done"
                      ELSE "running"]

\* The fan-out f after listener l ran, threw or not, and left the listener
\* lists as ls2: an exception is caught and the next listener is due.
afterListener(f, ls, l, threw, ls2) ==
  [f EXCEPT !.n = @ + 1,
            !.invoked = Append(@, l),
            !.threw = IF threw THEN @ \cup {f.n} ELSE @,
            !.mutated = @ \/ ls2[f.identifier] # ls[f.identifier],
            !.phase = IF f.n + 1 > Len(emitQueue(f, ls2)) THEN "done" ELSE "running"]

\* ------------------------------------------------------------ getWindowKeyboard

Windows == {"global", "w1", "w2"}

\* goog.getUid(obj): the uid of the object, assigned on the first call.
getUid(u, obj) ==
  IF u[obj] # 0 THEN u
  ELSE [u EXCEPT ![obj] = 1 + Cardinality({w \in Windows : u[w] # 0})]

\* The directory an operation reads and writes.
DState(u, inst, kbs) == [uids |-> u, keyboardInstances_ |-> inst, keyboards |-> kbs]

\* getWindowKeyboard without the cache lookup: a Keyboard is made every time.
getWindowKeyboardNoLookup(D, opt_window) ==
  LET targetWindow == IF opt_window = "undefined" THEN "global" ELSE opt_window
      u == getUid(D.uids, targetWindow)
      uid == u[targetWindow]
      kbs == Append(D.keyboards, [window |-> targetWindow, disposed |-> FALSE])
  IN [uids |-> u,
      keyboardInstances_ |-> [D.keyboardInstances_ EXCEPT ![uid] = Len(kbs)],
      keyboards |-> kbs,
      ret |-> [window |-> opt_window, keyboard |-> Len(kbs), hit |-> FALSE]]

\* wtf.events.Keyboard.getWindowKeyboard(opt_window) (keyboard.js 127-136).
getWindowKeyboard(D, opt_window) ==
  LET targetWindow == IF opt_window = "undefined" THEN "global" ELSE opt_window
      u == getUid(D.uids, targetWindow)
      uid == u[targetWindow]
      keyboard == D.keyboardInstances_[uid]
      kbs == Append(D.keyboards, [window |-> targetWindow, disposed |-> FALSE])
  IN IF keyboard = 0
     THEN [uids |-> u,
           keyboardInstances_ |-> [D.keyboardInstances_ EXCEPT ![uid] = Len(kbs)],
           keyboards |-> kbs,
           ret |-> [window |-> opt_window, keyboard |-> Len(kbs), hit |-> FALSE]]
     ELSE [uids |-> u,
           keyboardInstances_ |-> D.keyboardInstances_,
           keyboards |-> D.keyboards,
           ret |-> [window |-> opt_window, keyboard |-> keyboard, hit |-> TRUE]]

\* ------------------------------------------------------------ bookkeeping

RECURSIVE SumLen(_, _)
SumLen(ls, ds) ==
  IF ds = {} THEN 0
  ELSE LET d == CHOOSE x \in ds : TRUE IN Len(ls[d]) + SumLen(ls, ds \ {d})

TotalListeners(ls) == SumLen(ls, Descs)

Count(list, l) == Cardinality({i \in 1..Len(list) : list[i] = l})

\* The last operation: its name, the object it was called on ("keyboard" or
\* a scope), whether that scope was already disposed, and the change in the
\* number of listeners it made.
Op(name, on, was, delta) == [name |-> name, on |-> on, was |-> was, delta |-> delta]

Delta(k) == TotalListeners(k.listeners) - TotalListeners(listeners)

\* ------------------------------------------------------------ actions

Init ==
  /\ listeners = [d \in Descs |-> <<>>]
  /\ host = {}
  /\ calls = <<>>
  /\ err = "none"
  /\ last = Op("new", "keyboard", FALSE, 0)
  /\ recorded = [s \in Scopes |-> <<>>]
  /\ disposed = [s \in Scopes |-> FALSE]
  /\ added = [s \in Scopes |-> <<>>]
  /\ late = [s \in Scopes |-> FALSE]
  /\ unmatched = <<>>
  /\ fire = Idle
  /\ uids = [w \in Windows |-> 0]
  /\ keyboardInstances_ = [u \in 1..Cardinality(Windows) |-> 0]
  /\ keyboards = <<>>
  /\ ret = [window |-> "undefined", keyboard |-> 0, hit |-> FALSE]
  /\ live = TRUE

\* The Keyboard after an operation that left it as k.
Becomes(k) ==
  /\ listeners' = k.listeners
  /\ host' = k.host
  /\ calls' = k.calls
  /\ err' = k.err

\* keyboard.addShortcut(shortcut, callback, opt_scope), called directly.
AddShortcut(shortcut, callback, scope) ==
  /\ TotalListeners(listeners) + Len(split(shortcut)) <= MaxListeners
  /\ \E k \in {addShortcut(KState(listeners, host), shortcut, callback, scope)} :
       /\ last' = Op("addShortcut", "keyboard", FALSE, Delta(k))
       /\ Becomes(k)

\* keyboard.removeShortcut(shortcut, callback, opt_scope), called directly.
RemoveShortcut(shortcut, callback, scope) ==
  \E k \in {removeShortcut(KState(listeners, host), shortcut, callback, scope)} :
    /\ last' = Op("removeShortcut", "keyboard", FALSE, Delta(k))
    /\ Becomes(k)

\* The listeners a call of addShortcut put on the Keyboard, as
\* <<descriptor, callback, scope>> in the order of the loop.
RECURSIVE PutBy(_, _, _, _, _)
PutBy(k, shortcuts, n, callback, scope) ==
  IF n > Len(shortcuts) THEN <<>>
  ELSE LET k2 == addStep(k, shortcuts[n], callback, scope)
       IN IF k2.err # "none" THEN <<>>
          ELSE <<<<shortcuts[n], callback, scope>>>> \o
               PutBy(k2, shortcuts, n + 1, callback, scope)

\* scope.addShortcut that forwards to the Keyboard first and pushes the
\* tuple afterwards, which a throwing Keyboard.addShortcut prevents.
ScopeAddShortcutForwardFirst(s, shortcut, callback, scope) ==
  /\ TotalListeners(listeners) + Len(split(shortcut)) <= MaxListeners
  /\ Len(recorded[s]) < MaxRecorded
  /\ \E k \in {addShortcut(KState(listeners, host), shortcut, callback, scope)} :
       /\ Becomes(k)
       /\ last' = Op("addShortcut", s, disposed[s], Delta(k))
       /\ recorded' = [recorded EXCEPT ![s] =
                         IF k.err # "none" THEN @
                         ELSE Append(@, <<shortcut, callback, scope>>)]
  /\ added' = [added EXCEPT ![s] =
                 @ \o PutBy(KState(listeners, host), split(shortcut), 1, callback, scope)]
  /\ late' = [late EXCEPT ![s] = @ \/ disposed[s]]
  /\ UNCHANGED disposed

\* scope.addShortcut that does nothing once the scope is disposed.
ScopeAddShortcutWhileLive(s, shortcut, callback, scope) ==
  /\ TotalListeners(listeners) + Len(split(shortcut)) <= MaxListeners
  /\ Len(recorded[s]) < MaxRecorded
  /\ recorded' = [recorded EXCEPT ![s] =
                    IF disposed[s] THEN @ ELSE Append(@, <<shortcut, callback, scope>>)]
  /\ \E k \in {IF disposed[s] THEN KState(listeners, host)
               ELSE addShortcut(KState(listeners, host), shortcut, callback, scope)} :
       /\ Becomes(k)
       /\ last' = Op("addShortcut", s, disposed[s], Delta(k))
  /\ added' = [added EXCEPT ![s] =
                 IF disposed[s] THEN @
                 ELSE @ \o PutBy(KState(listeners, host), split(shortcut), 1,
                                 callback, scope)]
  /\ late' = [late EXCEPT ![s] = @ \/ disposed[s]]
  /\ UNCHANGED disposed

\* scope.addShortcut(shortcut, callback, opt_scope) (keyboard.js 185-189):
\* the tuple is pushed, then the call is forwarded to the Keyboard.
ScopeAddShortcut(s, shortcut, callback, scope) ==
  /\ TotalListeners(listeners) + Len(split(shortcut)) <= MaxListeners
  /\ Len(recorded[s]) < MaxRecorded
  /\ recorded' = [recorded EXCEPT ![s] = Append(@, <<shortcut, callback, scope>>)]
  /\ \E k \in {addShortcut(KState(listeners, host), shortcut, callback, scope)} :
       /\ Becomes(k)
       /\ last' = Op("addShortcut", s, disposed[s], Delta(k))
  /\ added' = [added EXCEPT ![s] =
                 @ \o PutBy(KState(listeners, host), split(shortcut), 1, callback, scope)]
  /\ late' = [late EXCEPT ![s] = @ \/ disposed[s]]
  /\ UNCHANGED disposed

\* scope.dispose() that runs disposeInternal on every call.
ScopeDisposeUnguarded(s) ==
  /\ \E k \in {disposeInternal(KState(listeners, host), recorded[s])} :
       /\ Becomes(k)
       /\ last' = Op("dispose", s, disposed[s], Delta(k))
  /\ disposed' = [disposed EXCEPT ![s] = TRUE]
  /\ UNCHANGED <<recorded, added, late>>

\* scope.dispose(): goog.Disposable runs disposeInternal (keyboard.js 170-176)
\* on the first call only.
ScopeDispose(s) ==
  /\ \E k \in {IF disposed[s] THEN KState(listeners, host)
               ELSE disposeInternal(KState(listeners, host), recorded[s])} :
       /\ Becomes(k)
       /\ last' = Op("dispose", s, disposed[s], Delta(k))
  /\ disposed' = [disposed EXCEPT ![s] = TRUE]
  /\ UNCHANGED <<recorded, added, late>>

\* A direct caller that adds a shortcut and remembers to remove it.
DirectAdd(shortcut, callback, scope) ==
  /\ Len(unmatched) < MaxUnmatched
  /\ AddShortcut(shortcut, callback, scope)
  /\ unmatched' = Append(unmatched, <<shortcut, callback, scope>>)
  /\ UNCHANGED scopeVars

\* A direct caller's removeShortcut; it matches the oldest addShortcut call
\* with the same arguments that is still unmatched, when there is one.
DirectRemove(shortcut, callback, scope) ==
  /\ RemoveShortcut(shortcut, callback, scope)
  /\ unmatched' = LET i == IndexOf(unmatched, <<shortcut, callback, scope>>)
                  IN IF i = 0 THEN unmatched ELSE RemoveAt(unmatched, i)
  /\ UNCHANGED scopeVars

\* The host key handler reports the registered key combination keys:
\* SHORTCUT_TRIGGERED reaches keyPressed_ through eh_ (keyboard.js 55-59),
\* which emits the event.  A disposed key handler reports nothing, and a
\* disposed eh_ has taken keyPressed_ off the key handler.
Trigger(keys) ==
  /\ live
  /\ fire.phase # "running"
  /\ \E r \in host :
       /\ r.keys = keys
       /\ fire' = emitEvent(listeners, keyPressed_([identifier |-> r.identifier]))
  /\ last' = Op("trigger", "keyboard", FALSE, 0)
  /\ calls' = <<>>
  /\ err' = "none"
  /\ UNCHANGED <<listeners, host>>

\* What a listener does when it is invoked: it returns, throws, or calls
\* back into the Keyboard or a scope and returns.
Behaviours ==
  {<<"return">>, <<"throw">>}
    \cup {<<op, sc, cb>> : op \in {"addShortcut", "removeShortcut"},
                           sc \in {<<"g">>, <<"h">>}, cb \in Callbacks}
    \cup {<<"dispose", s>> : s \in {"s1"}}

\* The Keyboard after a listener behaved as b.
Behave(k, b) ==
  CASE b[1] = "return" -> k
    [] b[1] = "throw" -> [k EXCEPT !.err = "thrown"]
    [] b[1] = "addShortcut" -> addShortcut(k, b[2], b[3], "undefined")
    [] b[1] = "removeShortcut" -> removeShortcut(k, b[2], b[3], "undefined")
    [] b[1] = "dispose" ->
         IF disposed[b[2]] THEN k ELSE disposeInternal(k, recorded[b[2]])

\* The fan-out invokes the next listener of its list, which behaves as b.
Invoke(b) ==
  /\ fire.phase = "running"
  /\ b[1] = "addShortcut" => TotalListeners(listeners) < MaxListeners
  /\ \E k \in {Behave(KState(listeners, host), b)} :
       /\ listeners' = k.listeners
       /\ host' = k.host
       /\ calls' = k.calls
       /\ err' = "none"
       /\ fire' = afterListener(fire, listeners, emitQueue(fire, listeners)[fire.n],
                                k.err # "none", k.listeners)
       /\ last' = Op(b[1], IF b[1] = "dispose" THEN b[2] ELSE "listener",
                     b[1] = "dispose" /\ disposed[b[2]], Delta(k))
  /\ disposed' = IF b[1] = "dispose" THEN [disposed EXCEPT ![b[2]] = TRUE] ELSE disposed
  /\ UNCHANGED <<recorded, added, late>>

\* keyboard.dispose() that leaves keyHandler_ as it is.
KeyboardDisposeLeavingHandler ==
  /\ fire.phase # "running"
  /\ live' = FALSE
  /\ host' = host
  /\ \E ls \in {listeners, [d \in Descs |-> <<>>]} :
       /\ listeners' = (IF live THEN ls ELSE listeners)
       /\ last' = Op("dispose", "keyboard", ~live,
                     TotalListeners(listeners') - TotalListeners(listeners))
  /\ calls' = <<>>
  /\ err' = "none"
  /\ fire' = Idle

\* keyboard.dispose(), outside a fan-out: goog.Disposable disposes, on the
\* first call only, the disposables the constructor registered
\* (keyboard.js 42 and 50).  eh_ stops listening to keyHandler_, and
\* keyHandler_ unregisters all its shortcuts and stops listening for keys.
\* Nothing in keyboard.js says what becomes of the listeners: the
\* EventEmitter keeps them or drops them.
KeyboardDispose ==
  /\ fire.phase # "running"
  /\ live' = FALSE
  /\ host' = (IF live THEN {} ELSE host)
  /\ \E ls \in {listeners, [d \in Descs |-> <<>>]} :
       /\ listeners' = (IF live THEN ls ELSE listeners)
       /\ last' = Op("dispose", "keyboard", ~live,
                     TotalListeners(listeners') - TotalListeners(listeners))
  /\ calls' = (IF live THEN <<<<"dispose">>>> ELSE <<>>)
  /\ err' = "none"
  /\ fire' = Idle

\* wtf.events.Keyboard.getWindowKeyboard(opt_window), called by anyone.
GetWindowKeyboard(opt_window) ==
  \E D \in {getWindowKeyboard(DState(uids, keyboardInstances_, keyboards), opt_window)} :
    /\ uids' = D.uids
    /\ keyboardInstances_' = D.keyboardInstances_
    /\ keyboards' = D.keyboards
    /\ ret' = D.ret

\* goog.dispose(keyboard) on a Keyboard handed out earlier: nothing in
\* keyboard.js takes it out of keyboardInstances_.
DisposeKeyboard(i) ==
  /\ keyboards' = [keyboards EXCEPT ![i].disposed = TRUE]
  /\ UNCHANGED <<uids, keyboardInstances_, ret>>

\* ------------------------------------------------------------ specifications

\* The Keyboard alone, under any sequence of direct addShortcut and
\* removeShortcut calls.
Next ==
  \/ \E s \in Shortcuts, cb \in Callbacks, o \in ScopeObjs :
       AddShortcut(s, cb, o) /\ UNCHANGED <<scopeVars, unmatched, fire, dirVars, live>>
  \/ \E s \in Shortcuts, cb \in Callbacks, o \in ScopeObjs :
       RemoveShortcut(s, cb, o) /\ UNCHANGED <<scopeVars, unmatched, fire, dirVars, live>>

Spec == Init /\ [][Next]_vars

\* The shortcut strings used through scopes, one of which the host rejects
\* in part, and the one used by direct callers beside them.
ScopeShortcuts == { <<"g">>, <<Sep, "g">> }

DirectShortcuts == { <<"g">> }

NextScope ==
  \/ \E s \in Scopes, sc \in ScopeShortcuts, cb \in Callbacks :
       ScopeAddShortcut(s, sc, cb, "undefined") /\ UNCHANGED <<unmatched, fire, dirVars, live>>
  \/ \E s \in Scopes : ScopeDispose(s) /\ UNCHANGED <<unmatched, fire, dirVars, live>>
  \/ \E sc \in DirectShortcuts, cb \in Callbacks :
       DirectAdd(sc, cb, "undefined") /\ UNCHANGED <<fire, dirVars, live>>
  \/ \E sc \in DirectShortcuts, cb \in Callbacks :
       DirectRemove(sc, cb, "undefined") /\ UNCHANGED <<fire, dirVars, live>>

SpecScope == Init /\ [][NextScope]_vars

\* Host triggers and their fan-out, between calls made outside a fan-out
\* (the event loop is single-threaded) and calls made by the listeners.  A
\* call made outside a fan-out ends the record of the fan-out before it.
FireShortcuts == { <<"g">>, <<"h">> }

NextFire ==
  \/ \E sc \in FireShortcuts, cb \in Callbacks :
       /\ fire.phase # "running"
       /\ AddShortcut(sc, cb, "undefined")
       /\ fire' = Idle
       /\ UNCHANGED <<scopeVars, unmatched, dirVars, live>>
  \/ \E cb \in Callbacks :
       /\ fire.phase # "running"
       /\ ScopeAddShortcut("s1", <<"g">>, cb, "undefined")
       /\ fire' = Idle
       /\ UNCHANGED <<unmatched, dirVars, live>>
  \/ \E d \in Descs : Trigger(d) /\ UNCHANGED <<scopeVars, unmatched, dirVars, live>>
  \/ \E b \in Behaviours : Invoke(b) /\ UNCHANGED <<unmatched, dirVars, live>>

SpecFire == Init /\ [][NextFire]_vars

\* The life of one Keyboard up to and after its disposal: calls made
\* outside a fan-out, host triggers with listeners that return or throw, and
\* keyboard.dispose().  Nothing in keyboard.js refuses a call on a disposed
\* Keyboard, so addShortcut and removeShortcut go on after the disposal.
NextTeardown ==
  \/ \E sc \in FireShortcuts, cb \in Callbacks :
       /\ fire.phase # "running"
       /\ AddShortcut(sc, cb, "undefined")
       /\ fire' = Idle
       /\ UNCHANGED <<scopeVars, unmatched, dirVars, live>>
  \/ \E sc \in FireShortcuts, cb \in Callbacks :
       /\ fire.phase # "running"
       /\ RemoveShortcut(sc, cb, "undefined")
       /\ fire' = Idle
       /\ UNCHANGED <<scopeVars, unmatched, dirVars, live>>
  \/ \E d \in Descs : Trigger(d) /\ UNCHANGED <<scopeVars, unmatched, dirVars, live>>
  \/ \E b \in {<<"return">>, <<"throw">>} :
       Invoke(b) /\ UNCHANGED <<unmatched, dirVars, live>>
  \/ KeyboardDispose /\ UNCHANGED <<scopeVars, unmatched, dirVars>>

SpecTeardown == Init /\ [][NextTeardown]_vars

\* The per-window cache, under lookups for any window (or none) and
\* disposals of the Keyboards it handed out.
NextDir ==
  \/ \E w \in Windows \cup {"undefined"} :
       GetWindowKeyboard(w)
       /\ UNCHANGED <<kbVars, last, scopeVars, unmatched, fire, live>>
  \/ \E i \in 1..Len(keyboards) :
       DisposeKeyboard(i)
       /\ UNCHANGED <<kbVars, last, scopeVars, unmatched, fire, live>>

SpecDir == Init /\ [][NextDir]_vars

\* ------------------------------------------------------------ claims: Keyboard

\* Invariant I1 for descriptor d: the host holds a registration for d iff d
\* has listeners, and never more than one.
I1At(d) ==
  /\ Registered(host, d) <=> hasListeners(listeners, d)
  /\ Cardinality({r \in host : r.keys = d}) <= 1

I1 == \A d \in Descs : I1At(d)

\* C1: in every state reached by addShortcut and removeShortcut calls
\* (multi-descriptor strings, duplicates and removals of missing triples
\* included), a descriptor has a host registration iff its listener set is
\* not empty.
C1_RegisteredIffListeners == I1

\* A removal that found nothing has run while a descriptor holds a duplicate
\* triple and another descriptor has no listener.
C1_Witness ==
  /\ last.name = "removeShortcut" /\ last.delta = 0
  /\ \E d \in Descs : Len(listeners[d]) >= 2 /\ listeners[d][1] = listeners[d][2]
  /\ \E d \in Descs \ {<<>>} : ~hasListeners(listeners, d)

\* No descriptor of the string has a listener with this callback and scope.
Missing(shortcut, callback, scope) ==
  \A i \in 1..Len(split(shortcut)) :
    Count(listeners[split(shortcut)[i]], Listener(callback, scope)) = 0

\* The unregisterShortcut calls for the descriptors, from index n, that have
\* no listeners in ls.
RECURSIVE UnregisterCalls(_, _, _)
UnregisterCalls(ls, shortcuts, n) ==
  IF n > Len(shortcuts) THEN <<>>
  ELSE (IF hasListeners(ls, shortcuts[n]) THEN <<>>
        ELSE <<<<"unregisterShortcut", shortcuts[n]>>>>)
       \o UnregisterCalls(ls, shortcuts, n + 1)

\* C4 as stated: removeShortcut of a triple that is not registered raises
\* nothing, changes no listener set and no host registration, and issues no
\* unregisterShortcut for a descriptor without an active registration.
C4_NoUnregisterIssued ==
  [][\A s \in Shortcuts, cb \in Callbacks, o \in ScopeObjs :
       (Missing(s, cb, o) /\ last'.name = "removeShortcut" /\ RemoveShortcut(s, cb, o)) =>
         /\ err' = "none"
         /\ listeners' = listeners
         /\ host' = host
         /\ \A i \in 1..Len(calls') : Registered(host, calls'[i][2])]_vars

\* C4 as amended: removeShortcut of a triple that is not registered raises
\* nothing and changes no listener set and no host registration; it does
\* issue unregisterShortcut(D), which finds nothing to unregister, for
\* exactly the descriptors D of the call that have no listeners.
C4_MissingTripleIsNoOp ==
  [][\A s \in Shortcuts, cb \in Callbacks, o \in ScopeObjs :
       (Missing(s, cb, o) /\ last'.name = "removeShortcut" /\ RemoveShortcut(s, cb, o)) =>
         /\ err' = "none"
         /\ listeners' = listeners
         /\ host' = host
         /\ calls' = UnregisterCalls(listeners, split(s), 1)]_vars

\* A removal found nothing, issued unregisterShortcut for a descriptor that
\* was not registered, and left a registered descriptor with its listeners.
C4_Witness ==
  /\ last.name = "removeShortcut" /\ last.on = "keyboard" /\ last.delta = 0
  /\ \E i \in 1..Len(calls) :
       calls[i][1] = "unregisterShortcut" /\ ~hasListeners(listeners, calls[i][2])
  /\ \E d \in Descs : hasListeners(listeners, d) /\ Registered(host, d)

\* The string 'a|b'.
Joined(a, b) == a \o <<Sep>> \o b

\* The Keyboard after the calls f(a) and then f(b) in straight-line code
\* equals the Keyboard after this step.
SameAs(k) ==
  /\ listeners' = k.listeners
  /\ host' = k.host
  /\ err' = k.err
  /\ calls' = k.calls

\* The descriptors of the list handled before the host rejects one.
RECURSIVE Accepted(_, _)
Accepted(shortcuts, n) ==
  IF n > Len(shortcuts) \/ HostRejects(shortcuts[n]) THEN <<>>
  ELSE <<shortcuts[n]>> \o Accepted(shortcuts, n + 1)

\* The number of times firing descriptor d invokes the callback: once per
\* listener entry with that callback and scope.
Fires(ls, d, callback, scope) == Count(ls[d], Listener(callback, scope))

AddThenAdd(a, b, cb, o) ==
  addShortcut(addShortcut(KState(listeners, host), a, cb, o), b, cb, o)

RemoveThenRemove(a, b, cb, o) ==
  removeShortcut(removeShortcut(KState(listeners, host), a, cb, o), b, cb, o)

\* C5 as stated: from every state addShortcut('A|B', cb, scope) leaves the
\* Keyboard as addShortcut('A', ...) followed by addShortcut('B', ...) does,
\* and afterwards firing A or B invokes cb exactly once (read here for two
\* different descriptors that the host accepts); removeShortcut is
\* equivalent in the same way.
C5_AliasesFireExactlyOnce ==
  [][\A a \in Descs, b \in Descs, cb \in Callbacks, o \in ScopeObjs :
       /\ (Joined(a, b) \in Shortcuts /\ last'.name = "addShortcut"
             /\ AddShortcut(Joined(a, b), cb, o)) =>
            /\ SameAs(AddThenAdd(a, b, cb, o))
            /\ (a # b /\ err' = "none") =>
                 /\ Fires(listeners', a, cb, o) = 1
                 /\ Fires(listeners', b, cb, o) = 1
       /\ (Joined(a, b) \in Shortcuts /\ last'.name = "removeShortcut"
             /\ RemoveShortcut(Joined(a, b), cb, o)) =>
            SameAs(RemoveThenRemove(a, b, cb, o))]_vars

\* C5 as amended: from every state addShortcut('A|B', cb, scope) leaves the
\* Keyboard as addShortcut('A', ...) followed by addShortcut('B', ...) in
\* straight-line code does (a rejected descriptor ends both), and afterwards
\* firing a descriptor invokes cb once more than before the call for each
\* time the descriptor occurs among those handled before a rejection;
\* removeShortcut is equivalent in the same way.
C5_AliasesAsSeparateCalls ==
  [][\A a \in Descs, b \in Descs, cb \in Callbacks, o \in ScopeObjs :
       /\ (Joined(a, b) \in Shortcuts /\ last'.name = "addShortcut"
             /\ AddShortcut(Joined(a, b), cb, o)) =>
            /\ SameAs(AddThenAdd(a, b, cb, o))
            /\ \A d \in Descs :
                 Fires(listeners', d, cb, o) =
                   Fires(listeners, d, cb, o) + Count(Accepted(<<a, b>>, 1), d)
       /\ (Joined(a, b) \in Shortcuts /\ last'.name = "removeShortcut"
             /\ RemoveShortcut(Joined(a, b), cb, o)) =>
            SameAs(RemoveThenRemove(a, b, cb, o))]_vars

\* A call with two different descriptors registered both with the host,
\* on a Keyboard where one of them already had a listener with the callback.
C5_Witness ==
  /\ last.name = "addShortcut" /\ last.delta = 2 /\ err = "none"
  /\ \E d \in Descs, e \in Descs, l \in {Listener(cb, o) : cb \in Callbacks, o \in ScopeObjs} :
       /\ d # e
       /\ Count(listeners[d], l) = 2
       /\ Count(listeners[e], l) = 1

\* C6: when the host rejects a descriptor of addShortcut('A|B', ...), the
\* Keyboard is as it was before the call: no descriptor of the batch keeps a
\* listener or a host registration.
C6_RejectedBatchLeavesNothing ==
  [][\A s \in Shortcuts, cb \in Callbacks, o \in ScopeObjs :
       (err' # "none" /\ AddShortcut(s, cb, o)) =>
         (listeners' = listeners /\ host' = host)]_vars

\* ------------------------------------------------------------ claims: KeyboardScope

NoListeners == \A d \in Descs : listeners[d] = <<>>

\* C2 as stated: listeners added for one descriptor by several scopes and
\* direct callers share one host registration, active until the last of them
\* is removed, and once every scope has been disposed and every direct
\* addShortcut matched by a removeShortcut, the Keyboard has no listeners and
\* the host no registrations.
C2_NothingLeftAfterDisposal ==
  /\ I1
  /\ ((\A s \in Scopes : disposed[s]) /\ unmatched = <<>>) =>
       (NoListeners /\ host = {})

\* C2 as amended: the same, for scopes on which addShortcut was not called
\* after their disposal.
C2_NothingLeftWithoutLateAdd ==
  /\ I1
  /\ ((\A s \in Scopes : disposed[s] /\ ~late[s]) /\ unmatched = <<>>) =>
       (NoListeners /\ host = {})

\* Both scopes put listeners on the same descriptor, and the disposal of the
\* last of them removed listeners and left nothing.
C2_Witness ==
  /\ last.name = "dispose" /\ ~last.was /\ last.delta < 0
  /\ \A s \in Scopes : disposed[s] /\ ~late[s]
  /\ \E d \in Descs : \A s \in Scopes : \E i \in 1..Len(added[s]) : added[s][i][1] = d
  /\ unmatched = <<>>
  /\ NoListeners /\ host = {}

\* C3: the disposal of a scope removes the listeners this scope added and
\* never more: for every descriptor, callback and scope object, the number
\* of listeners drops by no more than the number this scope put there, so
\* the listeners of other scopes and of direct callers stay.
C3_DisposalRemovesOnlyOwn ==
  [][\A s \in Scopes :
       (ScopeDispose(s) /\ ~disposed[s]) =>
         \A d \in Descs, cb \in Callbacks, o \in ScopeObjs :
           Fires(listeners, d, cb, o) - Fires(listeners', d, cb, o)
             <= Count(added[s], <<d, cb, o>>)]_vars

\* C8: a second disposal of a scope raises nothing, issues no removeShortcut
\* (so no host call) and changes neither listeners nor host registrations.
C8_SecondDisposalIsNoOp ==
  [][\A s \in Scopes :
       (ScopeDispose(s) /\ disposed[s]) =>
         /\ listeners' = listeners
         /\ host' = host
         /\ calls' = <<>>
         /\ err' = "none"]_vars

\* A scope was disposed again while a listener equal to one of its recorded
\* tuples was on the Keyboard.
C8_Witness ==
  /\ last.name = "dispose" /\ last.was
  /\ \E i \in 1..Len(recorded[last.on]) :
       LET r == recorded[last.on][i]
       IN \E n \in 1..Len(split(r[1])) : Fires(listeners, split(r[1])[n], r[2], r[3]) > 0

\* ------------------------------------------------------------ claims: getWindowKeyboard

Target(opt_window) == IF opt_window = "undefined" THEN "global" ELSE opt_window

\* C7: every Keyboard ever constructed, disposed or not, is still the cache
\* entry of its window, so a window has one Keyboard only and two windows
\* have different ones, and a call returns the Keyboard of its window.
C7_OneKeyboardPerWindow ==
  /\ \A i \in 1..Len(keyboards) :
       /\ uids[keyboards[i].window] # 0
       /\ keyboardInstances_[uids[keyboards[i].window]] = i
  /\ \A w \in Windows, v \in Windows : (w # v /\ uids[w] # 0) => uids[w] # uids[v]
  /\ ret.keyboard # 0 =>
       /\ keyboards[ret.keyboard].window = Target(ret.window)
       /\ keyboardInstances_[uids[Target(ret.window)]] = ret.keyboard

\* A lookup without a window returned the cached Keyboard of the global
\* window after it was disposed, while other windows have Keyboards too.
C7_Witness ==
  /\ ret.hit /\ ret.window = "undefined"
  /\ keyboards[ret.keyboard].disposed
  /\ Len(keyboards) = Cardinality(Windows)

\* ------------------------------------------------------------ claims: fan-out

\* C9: when a descriptor fired and one of its listeners threw, every
\* listener bound to the descriptor was still invoked for that event.
C9_ThrowingListenerIsIsolated ==
  (fire.phase = "done" /\ fire.threw # {}) => fire.invoked = fire.bound

\* The second of three listeners threw and all three were invoked.
C9_Witness ==
  /\ fire.phase = "done" /\ fire.threw = {2}
  /\ Len(fire.bound) = 3 /\ fire.invoked = fire.bound

\* C10: when a listener changed the listeners of the descriptor being
\* dispatched (addShortcut, removeShortcut or a scope's dispose), the
\* fan-out invokes exactly the listeners bound when it began, in order and
\* once each, and I1 holds when it ends.
C10_ReentrantMutationIsSafe ==
  fire.mutated =>
    /\ fire.invoked = SubSeq(fire.bound, 1, Len(fire.invoked))
    /\ fire.phase = "done" => (fire.invoked = fire.bound /\ I1)

\* A fan-out over two or more listeners ended after a listener had taken a
\* listener of the descriptor away, which was invoked all the same.
C10_Witness ==
  /\ fire.phase = "done" /\ fire.mutated
  /\ Len(fire.bound) >= 2
  /\ Len(listeners[fire.identifier]) < Len(fire.bound)
  /\ \E i \in 1..Len(fire.bound) : Fires(listeners, fire.identifier, fire.bound[i].callback, fire.bound[i].scope) = 0

\* ------------------------------------------------------------ claims: teardown

\* C11: the disposal of a Keyboard leaves the host without any registration
\* of that Keyboard, and from then on no host trigger reaches the Keyboard:
\* no event is emitted and no listener is invoked, whatever is added to the
\* disposed Keyboard later.
C11_DisposalSilencesKeyboard ==
  [][/\ (last'.name = "dispose" /\ last'.on = "keyboard" /\ live) =>
          (host' = {} /\ ~live')
     /\ ~live =>
          /\ ~live'
          /\ last'.name # "trigger"
          /\ fire'.phase # "running"
          /\ fire'.invoked = <<>>]_vars

\* A Keyboard with listeners on both descriptors, each registered with the
\* host, was disposed: it kept the listeners and has no registration left.
C11_Witness ==
  /\ last.name = "dispose" /\ last.on = "keyboard" /\ ~last.was
  /\ ~live /\ host = {}
  /\ \A d \in Descs \ {<<>>} : hasListeners(listeners, d)

\* ------------------------------------------------------------ claims: dispatch

\* The listeners of the sequence, as a set.
Range(list) == {list[i] : i \in 1..Len(list)}

\* C12 (invariant I2): the host holds every descriptor under an identifier
\* equal to the descriptor, a host trigger of a registered descriptor D
\* begins one fan-out, for the event named D and over the listeners bound
\* to D, and the fan-out invokes listeners bound to D only.
C12_TriggerEmitsItsDescriptor ==
  [][/\ \A r \in host' : r.identifier = r.keys
     /\ \A d \in Descs :
          (last'.name = "trigger" /\ Trigger(d)) =>
            /\ Registered(host, d)
            /\ fire'.identifier = d
            /\ fire'.bound = listeners[d]
            /\ fire'.invoked = <<>>
     /\ fire.phase = "running" =>
          /\ fire'.identifier = fire.identifier
          /\ fire'.bound = fire.bound
          /\ Range(fire'.invoked) \subseteq Range(fire.bound)]_vars

\* The fan-out for one descriptor ended, having invoked its listeners, while
\* the other descriptor was registered with a listener that was not invoked.
C12_Witness ==
  /\ fire.phase = "done" /\ fire.invoked # <<>>
  /\ \E d \in Descs \ {fire.identifier} :
       /\ Registered(host, d)
       /\ \E i \in 1..Len(listeners[d]) : listeners[d][i] \notin Range(fire.invoked)

\* ------------------------------------------------------------ claims: scope disposal

\* The removeShortcut calls scope.dispose() makes on the Keyboard in this
\* state, each as its arguments.
RemovesOf(s) ==
  IF disposed[s] THEN <<>>
  ELSE disposeInternal(KState(listeners, host), recorded[s]).removes

\* C13: the disposal of a scope on which addShortcut was never called
\* raises nothing, calls removeShortcut not once (so it makes no host call)
\* and leaves the listeners and the host registrations as they were.
C13_EmptyScopeDisposalIsNoOp ==
  [][\A s \in Scopes :
       (recorded[s] = <<>> /\ last'.name = "dispose" /\ ScopeDispose(s)) =>
         /\ err' = "none"
         /\ RemovesOf(s) = <<>>
         /\ calls' = <<>>
         /\ listeners' = listeners
         /\ host' = host]_vars

\* A scope that never had addShortcut called on it was disposed for the
\* first time while the Keyboard held listeners and a host registration.
C13_Witness ==
  /\ last.name = "dispose" /\ last.on \in Scopes /\ ~last.was
  /\ recorded[last.on] = <<>>
  /\ ~NoListeners /\ host # {}

\* The list a is the list b with some of its entries taken out.
RECURSIVE IsSubSeq(_, _)
IsSubSeq(a, b) ==
  IF a = <<>> THEN TRUE
  ELSE IF b = <<>> THEN FALSE
  ELSE IF Head(a) = Head(b) /\ IsSubSeq(Tail(a), Tail(b)) THEN TRUE
  ELSE IsSubSeq(a, Tail(b))

\* C14: listeners are kept in the order of their registration (an added one
\* goes last, a removal leaves the others in order); a host trigger of D
\* takes the listeners bound to D at that moment, and the fan-out invokes
\* them one by one in that order, ending when each was invoked once.
C14_EachListenerOnceInOrder ==
  [][/\ last'.delta > 0 =>
          \A d \in Descs :
            /\ Len(listeners'[d]) >= Len(listeners[d])
            /\ SubSeq(listeners'[d], 1, Len(listeners[d])) = listeners[d]
     /\ last'.delta < 0 =>
          \A d \in Descs : IsSubSeq(listeners'[d], listeners[d])
     /\ last'.name = "trigger" =>
          \A d \in Descs :
            Trigger(d) => (fire'.bound = listeners[d] /\ fire'.invoked = <<>>)
     /\ fire.phase = "running" =>
          /\ fire'.bound = fire.bound
          /\ fire'.invoked = Append(fire.invoked, fire.bound[Len(fire.invoked) + 1])
     /\ fire'.phase = "done" <=>
          (fire'.identifier # <<>> /\ fire'.invoked = fire'.bound)]_vars

\* A fan-out over three listeners, registered with different callbacks and
\* not in the order of their names, ended with none of them throwing or
\* changing the listeners.
C14_Witness ==
  /\ fire.phase = "done" /\ fire.threw = {} /\ ~fire.mutated
  /\ Len(fire.bound) = 3 /\ fire.invoked = fire.bound
  /\ fire.bound[1].callback = "cb2" /\ fire.bound[2].callback = "cb1"

\* C15: addShortcut of a triple the descriptor already has raises nothing,
\* makes no host call and adds one more entry for the triple, so that the
\* host still holds one registration of the descriptor; a trigger takes
\* every entry, and when its fan-out ends a callback was invoked once per
\* entry: twice for a triple that was added twice.
C15_DuplicateTripleFiresTwice ==
  [][/\ (last'.name = "addShortcut" /\ last'.on = "keyboard") =>
          \A sc \in FireShortcuts, cb \in Callbacks :
            (Fires(listeners, sc, cb, "undefined") >= 1
               /\ AddShortcut(sc, cb, "undefined")) =>
              /\ err' = "none"
              /\ calls' = <<>>
              /\ host' = host
              /\ Cardinality({r \in host' : r.keys = sc}) = 1
              /\ Fires(listeners', sc, cb, "undefined")
                   = Fires(listeners, sc, cb, "undefined") + 1
     /\ last'.name = "trigger" =>
          \A l \in Range(listeners[fire'.identifier]) :
            Count(fire'.bound, l) = Count(listeners[fire'.identifier], l)
     /\ (fire.phase = "running" /\ fire'.phase = "done") =>
          \A l \in Range(fire'.bound) :
            Count(fire'.invoked, l) = Count(fire'.bound, l)]_vars

\* A descriptor with one host registration and the same triple added twice
\* fired, and the fan-out invoked the callback twice.
C15_Witness ==
  /\ fire.phase = "done" /\ fire.threw = {}
  /\ Cardinality({r \in host : r.keys = fire.identifier}) = 1
  /\ \E l \in Range(fire.bound) :
       /\ Count(fire.invoked, l) = 2
       /\ Fires(listeners, fire.identifier, l.callback, l.scope) = 2

\* C17: addShortcut on a disposed scope does to the Keyboard what a direct
\* Keyboard.addShortcut does: the listener is added and its descriptor is
\* registered with the host when it is the first; and no later operation
\* on a scope that was used after its disposal (dispose, addShortcut) takes
\* a listener off the Keyboard or a registration off the host.
C17_LateAddStaysRegistered ==
  [][\A s \in Scopes :
       /\ (disposed[s] /\ last'.name = "addShortcut" /\ last'.on = s) =>
            \A sc \in ScopeShortcuts, cb \in Callbacks :
              ScopeAddShortcut(s, sc, cb, "undefined") =>
                /\ SameAs(addShortcut(KState(listeners, host), sc, cb, "undefined"))
                /\ sc = <<"g">> =>
                     /\ err' = "none"
                     /\ Fires(listeners', sc, cb, "undefined")
                          = Fires(listeners, sc, cb, "undefined") + 1
                     /\ Registered(host', sc)
       /\ (late[s] /\ last'.on = s) =>
            /\ host \subseteq host'
            /\ \A d \in Descs :
                 /\ Len(listeners'[d]) >= Len(listeners[d])
                 /\ SubSeq(listeners'[d], 1, Len(listeners[d])) = listeners[d]]_vars

\* A scope on which addShortcut was called after its disposal was disposed
\* again, and the listener that call added is on the Keyboard, its
\* descriptor registered with the host.
C17_Witness ==
  /\ last.name = "dispose" /\ last.on \in Scopes /\ last.was
  /\ late[last.on] /\ added[last.on] # <<>>
  /\ LET a == added[last.on][Len(added[last.on])]
     IN Fires(listeners, a[1], a[2], a[3]) >= 1 /\ Registered(host, a[1])

CallsOf(cs, name, d) == {i \in 1..Len(cs) : cs[i] = <<name, d>>}

\* registerShortcut(d) was called by the operation before this step and is
\* called again by this step, with no unregisterShortcut(d) call after the
\* former or before the latter.
RegisteredAgain(d) ==
  /\ CallsOf(calls, "registerShortcut", d) # {}
  /\ CallsOf(calls', "registerShortcut", d) # {}
  /\ \A u \in CallsOf(calls, "unregisterShortcut", d) :
       \E i \in CallsOf(calls, "registerShortcut", d) : i > u
  /\ \A u \in CallsOf(calls', "unregisterShortcut", d) :
       \E i \in CallsOf(calls', "registerShortcut", d) : i < u

\* No operation calls registerShortcut for a descriptor that is registered
\* when the operation begins or that it has itself registered before, and a
\* descriptor leaves the host only by an unregisterShortcut call for it.
NeverRegistersRegistered ==
  /\ \A i \in 1..Len(calls') :
       calls'[i][1] = "registerShortcut" =>
         /\ ~Registered(host, calls'[i][2])
         /\ \A j \in 1..(i - 1) : calls'[j] # calls'[i]
  /\ \A d \in Descs :
       (Registered(host, d) /\ ~Registered(host', d)) =>
         CallsOf(calls', "unregisterShortcut", d) # {}

\* C16 as stated: the Keyboard never calls registerShortcut(D) while D is
\* registered ('A|A' registers A once), and between two registerShortcut(D)
\* calls there is always an unregisterShortcut(D) call; the latter is read
\* here for the calls of two operations in a row.
C16_UnregisterBetweenRegisterCalls ==
  [][/\ NeverRegistersRegistered
     /\ \A d \in Descs : ~RegisteredAgain(d)]_vars

\* C16 as amended: the Keyboard never calls registerShortcut(D) while D is
\* registered ('A|A' registers A once), and between two registerShortcut(D)
\* calls that the host accepted there is always an unregisterShortcut(D)
\* call; a call that the host rejected is made again by the next
\* addShortcut for D.
C16_NoRegisterWhileRegistered ==
  [][/\ NeverRegistersRegistered
     /\ \A d \in Descs : RegisteredAgain(d) => HostRejects(d)]_vars

\* One addShortcut call added two listeners to a descriptor that had none
\* and called registerShortcut for it once, with another descriptor
\* registered beside it.
C16_Witness ==
  /\ last.name = "addShortcut" /\ last.delta = 2 /\ err = "none"
  /\ Len(calls) = 1 /\ calls[1][1] = "registerShortcut"
  /\ Len(listeners[calls[1][2]]) = 2
  /\ \E d \in Descs \ {calls[1][2]} : Registered(host, d)

====
